---- MODULE Spec2Model ----
(***************************************************************************)
(* Finitii web shell: the Top 3 ranking policy, the onboarding wizard, the *)
(* home page gate, the cheat-code run page, the register and settings      *)
(* pages, the routing middleware and the API client, with the backend they *)
(* talk to.  The frontend is modelled from its source; the backend, whose  *)
(* source is not part of the repository snapshot, is modelled from the     *)
(* launch-readiness report and the specification.                          *)
(***************************************************************************)
EXTENDS Integers, Sequences, FiniteSets, TLC

\* ------------------------------------------------------------------------
\* Bounds of the model
\* ------------------------------------------------------------------------

\* Largest candidate set handed to the ranking.
MaxCands == 4

\* Longest list the backend returns from GET /cheat-codes/recommendations.
MaxServerList == 4

\* Most users the backend registers.
MaxUsers == 2

\* Most session tokens the backend issues.
MaxTokens == 2

\* Longest audit trail.
MaxAudit == 4

\* Most exports made on one visit of the settings page.
MaxExports == 2

\* Presses of 'Add constraint' whose request is pending or has succeeded.
MaxAdds == 2

\* ------------------------------------------------------------------------
\* Ranking policy (backend): filter, score, sort, quick-win guarantee
\* ------------------------------------------------------------------------

\* The highest urgency score of a forecast (urgency_score=100).
MaxUrgency == 100

\* Score contributed by a candidate's impact class.
ImpactScore == 40

Confidences == {"low", "medium", "high"}

Urgencies == {0, MaxUrgency}

\* A ranking candidate: its confidence, the quick-win flag, whether its
\* impact is large and whether the forecast's urgency raises its score.
Candidate ==
    [confidence : Confidences, is_quick_win : BOOLEAN,
     large : BOOLEAN, urgent : BOOLEAN]

\* What the frontend reads of a recommendation.
RecOf(c) ==
    [confidence |-> c.confidence, is_quick_win |-> c.is_quick_win]

\* Low-confidence candidates are dropped before ranking.
Eligible(cands) ==
    {c \in cands : c.confidence # "low"}

\* The score of a candidate under an urgency score.
Score(c, urgency) ==
    (IF c.large THEN ImpactScore ELSE 0) + (IF c.urgent THEN urgency ELSE 0)

\* A number that tells equal-score candidates apart (stable order).
TieKey(c) ==
    (IF c.confidence = "high" THEN 8 ELSE IF c.confidence = "medium" THEN 4 ELSE 0)
    + (IF c.is_quick_win THEN 2 ELSE 0) + (IF c.urgent THEN 1 ELSE 0)

\* c is ranked before d.
Before(c, d, urgency) ==
    \/ Score(c, urgency) > Score(d, urgency)
    \/ /\ Score(c, urgency) = Score(d, urgency)
       /\ TieKey(c) >= TieKey(d)

\* The best candidate of a non-empty set.
Best(S, urgency) ==
    CHOOSE c \in S : \A d \in S : Before(c, d, urgency)

RECURSIVE SortByScore(_, _)
\* The candidates of S, best first.
SortByScore(S, urgency) ==
    IF S = {} THEN <<>>
    ELSE LET b == Best(S, urgency)
         IN <<b>> \o SortByScore(S \ {b}, urgency)

\* The first n elements of a sequence.
Take(s, n) ==
    SubSeq(s, 1, IF Len(s) < n THEN Len(s) ELSE n)

\* The candidates the quick-win guarantee may bring into the final three.
QuickWinPool(cands, urgency) ==
    {c \in Eligible(cands) : c.is_quick_win}

\* Mutation of RankPool: an urgent candidate is ranked whatever its confidence.
RankPool_UrgencyOverrides(cands, urgency) ==
    {c \in cands : c.confidence # "low" \/ (c.urgent /\ urgency = MaxUrgency)}

\* The candidates that take part in the ranking.
RankPool(cands, urgency) ==
    Eligible(cands)

\* The Top 3: the three best eligible candidates; when none of them is a
\* quick win and an eligible quick win exists, the best one replaces the third.
Top3Candidates(cands, urgency) ==
    LET sorted == SortByScore(RankPool(cands, urgency), urgency)
        first3 == Take(sorted, 3)
        pool == QuickWinPool(cands, urgency)
        hasQuick == \E i \in DOMAIN first3 : first3[i].is_quick_win
    IN IF hasQuick \/ pool = {} \/ first3 = <<>> THEN first3
       ELSE [first3 EXCEPT ![Len(first3)] = Best(pool, urgency)]

\* The response of POST /cheat-codes/top-3.
Top3(cands, urgency) ==
    LET t == Top3Candidates(cands, urgency)
    IN [i \in DOMAIN t |-> RecOf(t[i])]

\* ------------------------------------------------------------------------
\* Values shared by the frontend and the backend
\* ------------------------------------------------------------------------

Null == "null"

\* Number of entries of SAMPLE_TRANSACTIONS.
NumSamples == 10

\* The wizard's steps, by index.
STEPS ==
    <<"Consent", "Account", "Transactions", "Goals", "Top 3">>

\* The backend's onboarding steps, in its order.
ServerSteps ==
    <<"consent", "account_link", "goals", "top_3", "first_win", "completed">>

ConsentTypes == {"data_access", "terms_of_service", "ai_memory"}

\* The ApiError thrown for a fetch that never got a response.
NetworkError ==
    [message |-> "Cannot reach the server.", requestId |-> Null, status |-> 0]

\* The ApiError thrown for a non-2xx response with the given status.
HttpError(status) ==
    [message |-> "detail", requestId |-> "rid", status |-> status]

\* The ways a request can fail without the backend acting on it.
Failures == {NetworkError, HttpError(500), HttpError(401)}

\* The error state of a page: (error, requestId).
NoError == <<"", Null>>

\* setError(err.message); setRequestId(err.requestId)
ErrorOf(err) == <<err.message, err.requestId>>

\* Catalogues of candidates the backend ranks for the user.  Each holds a
\* quick win of at least medium confidence, so the quick-win guarantee of
\* the ranking can be met.
Catalogs ==
    { { [confidence |-> "high", is_quick_win |-> FALSE, large |-> TRUE, urgent |-> FALSE],
        [confidence |-> "medium", is_quick_win |-> FALSE, large |-> TRUE, urgent |-> TRUE],
        [confidence |-> "high", is_quick_win |-> FALSE, large |-> FALSE, urgent |-> TRUE],
        [confidence |-> "medium", is_quick_win |-> TRUE, large |-> FALSE, urgent |-> FALSE],
        [confidence |-> "low", is_quick_win |-> TRUE, large |-> TRUE, urgent |-> TRUE] },
      { [confidence |-> "high", is_quick_win |-> TRUE, large |-> TRUE, urgent |-> FALSE],
        [confidence |-> "low", is_quick_win |-> FALSE, large |-> TRUE, urgent |-> TRUE],
        [confidence |-> "medium", is_quick_win |-> FALSE, large |-> FALSE, urgent |-> FALSE] } }

\* ------------------------------------------------------------------------
\* State
\* ------------------------------------------------------------------------

VARIABLES
    rankCands,      \* ranking harness: the candidate set
    rankUrgency,    \* ranking harness: the urgency score
    rankDone,       \* ranking harness: the ranking has run
    ranked,         \* ranking harness: the Top 3 it produced
    page,           \* the route the browser shows
    srv,            \* the backend's record of the user
    catalog,        \* the backend's candidates for the user
    onb,            \* OnboardingPage's state and its handler's position
    home,           \* HomePage's state and its loader's position
    runp,           \* RunPage's state and its handler's position
    hist,           \* history of the requests sent (observation only)
    ls,             \* localStorage's session_token
    cookie,         \* the session_token cookie
    reg,            \* RegisterPage's state and its handler's position
    sett,           \* SettingsPage's state and its handlers' positions
    users,          \* the backend's users, in order of registration
    audit,          \* the backend's audit trail
    rq              \* the API client's call under way

rankVars == <<rankCands, rankUrgency, rankDone, ranked>>

appVars == <<page, srv, catalog, onb, home, runp, hist>>

\* The session token's two stores, the register and settings pages, the
\* backend's users and audit trail, and the API client's current call.
acctVars == <<ls, cookie, reg, sett, users, audit, rq>>

vars == <<rankVars, appVars, acctVars>>

\* OnboardingPage's state after useState: nothing entered, checking.
\* pending: the addConstraint calls awaiting their response, each with the
\* label and the constraints of the render it was started from; posted: how
\* many POST /goals/constraints of this page have succeeded.
OnbFresh ==
    [step |-> 0, error |-> NoError, loading |-> FALSE, checking |-> TRUE,
     consentData |-> FALSE, consentTerms |-> FALSE, consentAi |-> FALSE,
     acctForm |-> FALSE, accountId |-> Null, txnCount |-> 0, recs |-> <<>>,
     pc |-> "idle", cap |-> Null, grant |-> Null, count |-> 0,
     constraintLabel |-> "", constraints |-> <<>>, pending |-> <<>>,
     posted |-> 0]

\* HomePage's state after useState.
HomeFresh ==
    [forecast |-> <<>>, recs |-> <<>>, error |-> NoError, loading |-> TRUE,
     pc |-> "state"]

\* RunPage's state after useState.
RunFresh ==
    [run |-> <<>>, firstWin |-> FALSE, error |-> NoError, loading |-> TRUE,
     completing |-> FALSE, pc |-> "idle"]

\* A user who has just registered: nothing granted, nothing created.
SrvFresh ==
    [step |-> "consent", consents |-> {}, account |-> FALSE, run |-> "none",
     forecast |-> <<>>]

\* Nothing sent yet.  hidden: an HTTP error carrying a request id was caught
\* without being shown; visited, served, nav: the last path the browser
\* asked for, the page the middleware answered with, and a flag that flips
\* at every such request; goalMade: a POST /goals has succeeded.
HistFresh ==
    [advSent |-> {}, advOk |-> {}, advEarly |-> FALSE, gateHit |-> FALSE,
     aiPressed |-> FALSE, aiEver |-> FALSE, subGrants |-> {},
     hidden |-> FALSE, visited |-> <<"register">>, served |-> "register",
     nav |-> FALSE, goalMade |-> FALSE]

\* localStorage.getItem("session_token") when nothing is stored (null); the
\* tokens the backend issues are numbered from 1.
NoToken == 0

\* The e-mail addresses and the password typed into the register form.
Emails == {"u@example.com"}

Password == "ChangeMe123!"

\* The e-mail of a deleted user.
AnonEmail == "anonymized"

\* RegisterPage's state after useState.
RegFresh ==
    [error |-> NoError, loading |-> FALSE, pc |-> "idle"]

\* SettingsPage's state after useState; exports counts the blob URLs
\* handleExport has created on this page (exportUrl is the last, or null).
SettFresh ==
    [error |-> NoError, exporting |-> FALSE, exports |-> 0, deleting |-> FALSE,
     confirmDelete |-> FALSE]

\* The backend's record of a newly registered user.
NewUser(email) ==
    [email |-> email, password |-> Password, active |-> TRUE,
     consents |-> {}, vault |-> 0, tokens |-> {}, live |-> {}]

\* No call of the API client is under way.
RqIdle ==
    [pc |-> "idle"]

\* ------------------------------------------------------------------------
\* Initial states
\* ------------------------------------------------------------------------

\* Nobody is registered and the browser holds no token.
InitAcctIdle ==
    /\ ls = NoToken
    /\ cookie = NoToken
    /\ reg = RegFresh
    /\ sett = SettFresh
    /\ users = <<>>
    /\ audit = <<>>
    /\ rq = RqIdle

\* The user has registered: RegisterPage logged them in and stored token 1.
InitLoggedIn ==
    /\ ls = 1
    /\ cookie = 1
    /\ reg = RegFresh
    /\ sett = SettFresh
    /\ users = <<[NewUser("u@example.com") EXCEPT !.tokens = {1}, !.live = {1}]>>
    /\ audit = <<>>
    /\ rq = RqIdle

InitRankIdle ==
    /\ rankCands = {}
    /\ rankUrgency = 0
    /\ rankDone = FALSE
    /\ ranked = <<>>

\* The registered user lands on /onboarding.
InitApp ==
    /\ page = "onboarding"
    /\ srv = SrvFresh
    /\ catalog \in Catalogs
    /\ onb = OnbFresh
    /\ home = HomeFresh
    /\ runp = RunFresh
    /\ hist = HistFresh

InitAppIdle ==
    /\ page = "onboarding"
    /\ srv = SrvFresh
    /\ catalog = {}
    /\ onb = OnbFresh
    /\ home = HomeFresh
    /\ runp = RunFresh
    /\ hist = HistFresh

\* ------------------------------------------------------------------------
\* Ranking harness: the ranking applied to every small candidate set
\* ------------------------------------------------------------------------

InitRank ==
    /\ rankCands = {}
    /\ rankUrgency \in Urgencies
    /\ rankDone = FALSE
    /\ ranked = <<>>
    /\ InitAppIdle
    /\ InitAcctIdle

\* A candidate is produced for the user.
AddCandidate(c) ==
    /\ ~rankDone
    /\ Cardinality(rankCands) < MaxCands
    /\ c \notin rankCands
    /\ rankCands' = rankCands \cup {c}
    /\ UNCHANGED <<rankUrgency, rankDone, ranked, appVars, acctVars>>

\* The Top 3 is computed.
RankTop3 ==
    /\ ~rankDone
    /\ ranked' = Top3(rankCands, rankUrgency)
    /\ rankDone' = TRUE
    /\ UNCHANGED <<rankCands, rankUrgency, appVars, acctVars>>

NextRank ==
    \/ \E c \in Candidate : AddCandidate(c)
    \/ RankTop3

SpecRank == InitRank /\ [][NextRank]_vars

\* ------------------------------------------------------------------------
\* Backend: onboarding gate, consents, accounts, runs
\* ------------------------------------------------------------------------

\* The place of a step in the backend's order.
StepIndex(s) ==
    CHOOSE i \in DOMAIN ServerSteps : ServerSteps[i] = s

\* The step that follows s.
NextStep(s) ==
    ServerSteps[StepIndex(s) + 1]

\* The body of GET /onboarding/state.
OnboardingState ==
    [current_step |-> srv.step,
     first_win_completed_at |-> IF srv.step = "completed" THEN "set" ELSE Null]

\* POST /onboarding/advance?step=s is accepted: s is the current step (the
\* order gate), and first_win needs a run with a completed step.
AdvanceAccepted(s) ==
    /\ srv.step = s
    /\ s = "first_win" => srv.run = "done"

\* The errors POST /onboarding/advance?step=s can throw.
AdvanceErrors(s) ==
    Failures \cup (IF AdvanceAccepted(s) THEN {} ELSE {HttpError(400)})

\* The history after an advance request for s, accepted or thrown err:
\* advEarly when the advance of the step before s has not succeeded,
\* gateHit when the backend rejected s for skipping a step.
LogAdvance(s, accepted, err) ==
    [hist EXCEPT
       !.advSent = @ \cup {s},
       !.advOk = IF accepted THEN @ \cup {s} ELSE @,
       !.advEarly = @ \/ (StepIndex(s) > 1 /\ ServerSteps[StepIndex(s) - 1] \notin hist.advOk),
       !.gateHit = @ \/ (~accepted /\ err.status = 400
                            /\ StepIndex(s) > StepIndex(srv.step))]

\* The history after a handler caught err and showed no error box with its
\* message and request id: hidden when err is an HTTP error response that
\* carried an X-Request-ID.
Swallow(h, err) ==
    [h EXCEPT !.hidden = @ \/ (err.status # 0 /\ err.requestId # Null)]

\* The urgency score of the latest forecast (none: no urgency).
UrgencyOf(forecast) ==
    IF forecast = <<>> THEN 0 ELSE forecast[1]

\* The lists GET /cheat-codes/recommendations may return.
ServerLists ==
    UNION { [1..n -> {[confidence |-> "high", is_quick_win |-> TRUE],
                      [confidence |-> "medium", is_quick_win |-> FALSE]}]
            : n \in 0..MaxServerList }

\* ------------------------------------------------------------------------
\* Navigation
\* ------------------------------------------------------------------------

\* The browser shows route p: its page mounts with fresh state, the others
\* are unmounted.
Show(p) ==
    /\ page' = p
    /\ onb' = OnbFresh
    /\ home' = HomeFresh
    /\ runp' = RunFresh

\* The user opens or reloads /onboarding.
GotoOnboarding ==
    /\ Show("onboarding")
    /\ UNCHANGED <<srv, catalog, hist, rankVars, acctVars>>

\* The user opens /home (page.goto, or the run page's Go to Home).
GotoHome ==
    /\ Show("home")
    /\ UNCHANGED <<srv, catalog, hist, rankVars, acctVars>>

\* The user opens or reloads the page of the run.
GotoRun ==
    /\ srv.run # "none"
    /\ Show("run")
    /\ UNCHANGED <<srv, catalog, hist, rankVars, acctVars>>

\* ------------------------------------------------------------------------
\* OnboardingPage
\* ------------------------------------------------------------------------

\* The wizard index shown for the backend's step s.
StepOnMount(s) ==
    CASE s = "account_link" -> 2
      [] s = "goals" -> 3
      [] s \in {"top_3", "first_win"} -> 4
      [] OTHER -> 0

\* Mutation of OnbRedirects: the first_win step counts as done.
OnbRedirects_AtFirstWinStep(state) ==
    \/ state.current_step \in {"first_win", "completed"}
    \/ state.first_win_completed_at # Null

\* The mount effect sends the user to /home: the condition of its if.
OnbRedirects(state) ==
    \/ state.current_step = "completed"
    \/ state.first_win_completed_at # Null

\* The mount effect: GET /onboarding/state, then redirect or set the step.
OnbMount ==
    /\ page = "onboarding"
    /\ onb.checking
    /\ \/ /\ OnbRedirects(OnboardingState)
          /\ Show("home")
          /\ UNCHANGED hist
       \/ /\ ~OnbRedirects(OnboardingState)
          /\ onb' = [onb EXCEPT !.step = StepOnMount(OnboardingState.current_step),
                                !.checking = FALSE]
          /\ UNCHANGED <<page, home, runp, hist>>
       \/ \E err \in Failures :
             /\ onb' = [onb EXCEPT !.checking = FALSE]
             /\ hist' = Swallow(hist, err)
             /\ UNCHANGED <<page, home, runp>>
    /\ UNCHANGED <<srv, catalog, rankVars, acctVars>>

\* handleError(err) followed by the handler's finally { setLoading(false) }.
OnbThrow(err) ==
    [onb EXCEPT !.error = ErrorOf(err), !.loading = FALSE, !.pc = "idle",
                !.cap = Null, !.grant = Null]

\* clearError(); setLoading(true): a handler starts at position pc.
OnbStart(pc) ==
    [onb EXCEPT !.error = NoError, !.loading = TRUE, !.pc = pc]

\* The wizard's form for step i is on screen.
OnStep(i) ==
    /\ page = "onboarding"
    /\ ~onb.checking
    /\ onb.step = i

\* The handler is at position pc.
At(pc) ==
    /\ page = "onboarding"
    /\ onb.pc = pc

\* The request POST /onboarding/advance?step=s of a wizard handler, which
\* goes on with state onbOk when it succeeds.
OnbAdvance(s, onbOk) ==
    \/ /\ AdvanceAccepted(s)
       /\ srv' = [srv EXCEPT !.step = NextStep(s)]
       /\ onb' = onbOk
       /\ hist' = LogAdvance(s, TRUE, Null)
    \/ \E err \in AdvanceErrors(s) :
          /\ onb' = OnbThrow(err)
          /\ hist' = LogAdvance(s, FALSE, err)
          /\ UNCHANGED srv

\* --- Step 0: Consent ---

\* The user ticks or unticks one of the three consent boxes.
ToggleConsent(box) ==
    /\ OnStep(0)
    /\ onb' = [onb EXCEPT ![box] = ~@]
    /\ UNCHANGED <<page, srv, catalog, home, runp, hist, rankVars, acctVars>>

\* The consent types in the order submitConsent grants them.
ConsentOrder ==
    <<"data_access", "terms_of_service", "ai_memory">>

\* Mutation of GrantWanted: the ai_memory grant is sent whatever its box.
GrantWanted_AiAlways(cap, t) ==
    CASE t = "data_access" -> cap.consentData
      [] t = "terms_of_service" -> cap.consentTerms
      [] OTHER -> TRUE

\* submitConsent sends the grant of type t: the guard of its if.
GrantWanted(cap, t) ==
    CASE t = "data_access" -> cap.consentData
      [] t = "terms_of_service" -> cap.consentTerms
      [] OTHER -> cap.consentAi

\* The position of submitConsent after the grants before index i: the
\* next grant it sends, or the advance request.
ConsentNext(o, i) ==
    LET later == {j \in i..Len(ConsentOrder) : GrantWanted(o.cap, ConsentOrder[j])}
    IN IF later = {} THEN [o EXCEPT !.pc = "advance_consent", !.grant = Null, !.cap = Null]
       ELSE [o EXCEPT !.pc = "grant",
                      !.grant = CHOOSE j \in later : \A k \in later : j <= k]

\* Mutation of ConsentContinueEnabled: the button is disabled by loading only.
ConsentContinueEnabled_LoadingOnly ==
    ~onb.loading

\* The Consent step's Continue button is enabled.
ConsentContinueEnabled ==
    ~(~onb.consentData \/ ~onb.consentTerms \/ onb.loading)

\* Continue on the Consent step: submitConsent starts, with the boxes as
\* they are rendered.
SubmitConsentPress ==
    /\ OnStep(0)
    /\ ConsentContinueEnabled
    /\ onb' = ConsentNext(
                [OnbStart("grant") EXCEPT
                   !.cap = [consentData |-> onb.consentData,
                            consentTerms |-> onb.consentTerms,
                            consentAi |-> onb.consentAi]], 1)
    /\ hist' = [hist EXCEPT !.aiPressed = onb.consentAi,
                             !.aiEver = @ \/ onb.consentAi, !.subGrants = {}]
    /\ UNCHANGED <<page, srv, catalog, home, runp, rankVars, acctVars>>

\* submitConsent: one POST /consent/grant.
SubmitConsentGrant ==
    /\ At("grant")
    /\ \/ /\ srv' = [srv EXCEPT !.consents = @ \cup {ConsentOrder[onb.grant]}]
          /\ hist' = [hist EXCEPT !.subGrants = @ \cup {ConsentOrder[onb.grant]}]
          /\ onb' = ConsentNext(onb, onb.grant + 1)
       \/ \E err \in Failures :
             /\ onb' = OnbThrow(err)
             /\ UNCHANGED <<srv, hist>>
    /\ UNCHANGED <<page, catalog, home, runp, rankVars, acctVars>>

\* submitConsent: POST /onboarding/advance?step=consent, then setStep(1).
SubmitConsentAdvance ==
    /\ At("advance_consent")
    /\ OnbAdvance("consent",
                  [onb EXCEPT !.step = 1, !.loading = FALSE, !.pc = "idle"])
    /\ UNCHANGED <<page, catalog, home, runp, rankVars, acctVars>>

\* --- Step 1: Account ---

\* The user fills in (or empties) the institution and account name.
FillAccountForm ==
    /\ OnStep(1)
    /\ onb' = [onb EXCEPT !.acctForm = ~@]
    /\ UNCHANGED <<page, srv, catalog, home, runp, hist, rankVars, acctVars>>

\* Continue on the Account step: submitAccount starts.
SubmitAccountPress ==
    /\ OnStep(1)
    /\ onb.acctForm
    /\ ~onb.loading
    /\ onb' = OnbStart("create_account")
    /\ UNCHANGED <<page, srv, catalog, home, runp, hist, rankVars, acctVars>>

\* submitAccount: POST /accounts/manual, then setAccountId(data.id).
SubmitAccountCreate ==
    /\ At("create_account")
    /\ \/ /\ srv' = [srv EXCEPT !.account = TRUE]
          /\ onb' = [onb EXCEPT !.accountId = "acct", !.pc = "advance_account"]
       \/ \E err \in Failures :
             /\ onb' = OnbThrow(err)
             /\ UNCHANGED srv
    /\ UNCHANGED <<page, catalog, home, runp, hist, rankVars, acctVars>>

\* Mutation of SubmitAccountAdvance: the wizard jumps to the Goals step.
SubmitAccountAdvance_Skips ==
    /\ At("advance_account")
    /\ OnbAdvance("account_link",
                  [onb EXCEPT !.step = 3, !.loading = FALSE, !.pc = "idle"])
    /\ UNCHANGED <<page, catalog, home, runp, rankVars, acctVars>>

\* submitAccount: POST /onboarding/advance?step=account_link, then setStep(2).
SubmitAccountAdvance ==
    /\ At("advance_account")
    /\ OnbAdvance("account_link",
                  [onb EXCEPT !.step = 2, !.loading = FALSE, !.pc = "idle"])
    /\ UNCHANGED <<page, catalog, home, runp, rankVars, acctVars>>

\* --- Step 2: Transactions ---

\* Add sample transactions: the handler starts; with no accountId in its
\* closure it first asks the backend for the first account.
AddSamplePress ==
    /\ OnStep(2)
    /\ ~onb.loading
    /\ onb' = [OnbStart(IF onb.accountId # Null THEN "post_txn" ELSE "get_account")
                 EXCEPT !.count = 0]
    /\ UNCHANGED <<page, srv, catalog, home, runp, hist, rankVars, acctVars>>

\* getFirstAccountId: GET /accounts; the first account's id, or null when
\* there is none or the request fails ("No account found").
GetFirstAccountId ==
    /\ At("get_account")
    /\ \/ /\ srv.account
          /\ onb' = [onb EXCEPT !.accountId = "acct", !.pc = "post_txn"]
          /\ UNCHANGED hist
       \/ /\ ~srv.account
          /\ onb' = [onb EXCEPT !.error = <<"No account found", Null>>,
                                !.loading = FALSE, !.pc = "idle"]
          /\ UNCHANGED hist
       \/ \E err \in Failures :
             /\ onb' = [onb EXCEPT !.error = <<"No account found", Null>>,
                                   !.loading = FALSE, !.pc = "idle"]
             /\ hist' = Swallow(hist, err)
    /\ UNCHANGED <<page, srv, catalog, home, runp, rankVars, acctVars>>

\* addSampleTransactions: one POST /transactions of the loop; after the
\* last one, setTxnCount(count).
PostTransaction ==
    /\ At("post_txn")
    /\ \/ onb' = IF onb.count + 1 = NumSamples
                 THEN [onb EXCEPT !.count = @ + 1, !.txnCount = onb.count + 1,
                                  !.loading = FALSE, !.pc = "idle"]
                 ELSE [onb EXCEPT !.count = @ + 1]
       \/ \E err \in Failures : onb' = OnbThrow(err)
    /\ UNCHANGED <<page, srv, catalog, home, runp, hist, rankVars, acctVars>>

\* Continue on the Transactions step: submitTransactions starts.
SubmitTransactionsPress ==
    /\ OnStep(2)
    /\ onb.txnCount # 0
    /\ ~onb.loading
    /\ onb' = OnbStart("detect")
    /\ UNCHANGED <<page, srv, catalog, home, runp, hist, rankVars, acctVars>>

\* submitTransactions: POST /recurring/detect.
DetectRecurring ==
    /\ At("detect")
    /\ \/ onb' = [onb EXCEPT !.pc = "forecast"]
       \/ \E err \in Failures : onb' = OnbThrow(err)
    /\ UNCHANGED <<page, srv, catalog, home, runp, hist, rankVars, acctVars>>

\* submitTransactions: POST /forecast/compute, then setStep(3).
ComputeForecast ==
    /\ At("forecast")
    /\ \/ /\ \E u \in Urgencies : srv' = [srv EXCEPT !.forecast = <<u>>]
          /\ onb' = [onb EXCEPT !.step = 3, !.loading = FALSE, !.pc = "idle"]
       \/ \E err \in Failures :
             /\ onb' = OnbThrow(err)
             /\ UNCHANGED srv
    /\ UNCHANGED <<page, catalog, home, runp, hist, rankVars, acctVars>>

\* --- Step 3: Goals ---

\* Mutation of SubmitGoalsPress: the Continue button is never disabled.
SubmitGoalsPress_AlwaysEnabled ==
    /\ OnStep(3)
    /\ onb' = OnbStart("post_goal")
    /\ UNCHANGED <<page, srv, catalog, home, runp, hist, rankVars, acctVars>>

\* Continue on the Goals step: submitGoals starts.
SubmitGoalsPress ==
    /\ OnStep(3)
    /\ ~onb.loading
    /\ onb' = OnbStart("post_goal")
    /\ UNCHANGED <<page, srv, catalog, home, runp, hist, rankVars, acctVars>>

\* submitGoals: POST /goals.
PostGoal ==
    /\ At("post_goal")
    /\ \/ /\ onb' = [onb EXCEPT !.pc = "advance_goals"]
          /\ hist' = [hist EXCEPT !.goalMade = TRUE]
       \/ \E err \in Failures :
             /\ onb' = OnbThrow(err)
             /\ UNCHANGED hist
    /\ UNCHANGED <<page, srv, catalog, home, runp, rankVars, acctVars>>

\* submitGoals: POST /onboarding/advance?step=goals.
SubmitGoalsAdvance ==
    /\ At("advance_goals")
    /\ OnbAdvance("goals", [onb EXCEPT !.pc = "top3"])
    /\ UNCHANGED <<page, catalog, home, runp, rankVars, acctVars>>

\* submitGoals: POST /cheat-codes/top-3, then setRecs(data).
FetchTop3 ==
    /\ At("top3")
    /\ \/ onb' = [onb EXCEPT !.recs = Top3(catalog, UrgencyOf(srv.forecast)),
                             !.pc = "advance_top3"]
       \/ \E err \in Failures : onb' = OnbThrow(err)
    /\ UNCHANGED <<page, srv, catalog, home, runp, hist, rankVars, acctVars>>

\* submitGoals: POST /onboarding/advance?step=top_3, then setStep(4).
SubmitTop3Advance ==
    /\ At("advance_top3")
    /\ OnbAdvance("top_3",
                  [onb EXCEPT !.step = 4, !.loading = FALSE, !.pc = "idle"])
    /\ UNCHANGED <<page, catalog, home, runp, rankVars, acctVars>>

\* What the user can type into the constraint input.
Labels == {" ", "rent", "gym"}

\* String.prototype.trim on the labels of the model.
Trim(label) ==
    IF label = " " THEN "" ELSE label

\* Sequence q without its element at index i.
Without(q, i) ==
    [j \in 1..(Len(q) - 1) |-> IF j < i THEN q[j] ELSE q[j + 1]]

\* The user types label into (or empties) the constraint input.
SetConstraintLabel(label) ==
    /\ OnStep(3)
    /\ onb.constraintLabel # label
    /\ onb' = [onb EXCEPT !.constraintLabel = label]
    /\ UNCHANGED <<page, srv, catalog, home, runp, hist, rankVars, acctVars>>

\* Add constraint: addConstraint starts and sends POST /goals/constraints;
\* its continuation keeps the label and the constraints it was rendered with.
AddConstraintPress ==
    /\ OnStep(3)
    /\ Trim(onb.constraintLabel) # ""
    /\ onb.posted + Len(onb.pending) < MaxAdds
    /\ onb' = [onb EXCEPT !.error = NoError,
                          !.pending = Append(@, [label |-> Trim(onb.constraintLabel),
                                                 constraints |-> onb.constraints])]
    /\ UNCHANGED <<page, srv, catalog, home, runp, hist, rankVars, acctVars>>

\* addConstraint: the response of one pending POST /goals/constraints, then
\* setConstraints([...constraints, label]) and setConstraintLabel(""), or
\* handleError.
AddConstraintReturn ==
    /\ page = "onboarding"
    /\ \E i \in DOMAIN onb.pending :
          \/ onb' = [onb EXCEPT
                       !.constraints = Append(onb.pending[i].constraints,
                                              onb.pending[i].label),
                       !.constraintLabel = "",
                       !.posted = @ + 1,
                       !.pending = Without(@, i)]
          \/ \E err \in Failures :
                onb' = [onb EXCEPT !.error = ErrorOf(err),
                                   !.pending = Without(@, i)]
    /\ UNCHANGED <<page, srv, catalog, home, runp, hist, rankVars, acctVars>>

\* --- Step 4: Top 3 ---

\* Start on a card: startRun starts.
StartRunPress ==
    /\ OnStep(4)
    /\ ~onb.loading
    /\ onb.recs # <<>>
    /\ onb' = OnbStart("post_run")
    /\ UNCHANGED <<page, srv, catalog, home, runp, hist, rankVars, acctVars>>

\* startRun: POST /cheat-codes/runs, then router.push to the run's page.
PostRun ==
    /\ At("post_run")
    /\ \/ /\ srv' = [srv EXCEPT !.run = IF @ = "none" THEN "open" ELSE @]
          /\ Show("run")
       \/ \E err \in Failures :
             /\ onb' = OnbThrow(err)
             /\ UNCHANGED <<page, srv, home, runp>>
    /\ UNCHANGED <<catalog, hist, rankVars, acctVars>>

\* ------------------------------------------------------------------------
\* HomePage
\* ------------------------------------------------------------------------

\* The loader is at position pc.
HomeAt(pc) ==
    /\ page = "home"
    /\ home.pc = pc

\* checkOnboardingAndLoad sends the user to /onboarding: the condition of
\* its if.
HomeRedirects(state) ==
    /\ ~(state.first_win_completed_at # Null)
    /\ state.current_step # "completed"

\* checkOnboardingAndLoad: the onboarding state says the user is not done,
\* and the page redirects to /onboarding.
HomeRedirect ==
    /\ HomeAt("state")
    /\ HomeRedirects(OnboardingState)
    /\ Show("onboarding")
    /\ UNCHANGED <<srv, catalog, hist, rankVars, acctVars>>

\* checkOnboardingAndLoad: GET /onboarding/state threw err; the outer catch
\* and the finally.
HomeStateError(err) ==
    IF err.status = 401
    THEN /\ Show("login")
         /\ hist' = Swallow(hist, err)
    ELSE /\ home' = [home EXCEPT !.error = ErrorOf(err), !.loading = FALSE,
                                 !.pc = "done"]
         /\ UNCHANGED <<page, onb, runp, hist>>

\* checkOnboardingAndLoad: GET /onboarding/state, when it does not redirect.
HomeCheck ==
    /\ HomeAt("state")
    /\ \/ /\ ~HomeRedirects(OnboardingState)
          /\ home' = [home EXCEPT !.pc = "forecast"]
          /\ UNCHANGED <<page, onb, runp, hist>>
       \/ \E err \in Failures : HomeStateError(err)
    /\ UNCHANGED <<srv, catalog, rankVars, acctVars>>

\* checkOnboardingAndLoad: GET /forecast/latest; a failure is ignored.
HomeLoadForecast ==
    /\ HomeAt("forecast")
    /\ \/ /\ srv.forecast # <<>>
          /\ home' = [home EXCEPT !.forecast = srv.forecast, !.pc = "recs"]
          /\ UNCHANGED hist
       \/ \E err \in Failures \cup {HttpError(404)} :
             /\ home' = [home EXCEPT !.pc = "recs"]
             /\ hist' = Swallow(hist, err)
    /\ UNCHANGED <<page, srv, catalog, onb, runp, rankVars, acctVars>>

\* checkOnboardingAndLoad: GET /cheat-codes/recommendations, setRecs, and
\* the finally; a failure is ignored.
HomeLoadRecs ==
    /\ HomeAt("recs")
    /\ \/ /\ \E r \in ServerLists :
                home' = [home EXCEPT !.recs = r, !.loading = FALSE, !.pc = "done"]
          /\ UNCHANGED hist
       \/ \E err \in Failures :
             /\ home' = [home EXCEPT !.loading = FALSE, !.pc = "done"]
             /\ hist' = Swallow(hist, err)
    /\ UNCHANGED <<page, srv, catalog, onb, runp, rankVars, acctVars>>

\* ------------------------------------------------------------------------
\* RunPage
\* ------------------------------------------------------------------------

\* The body of GET /cheat-codes/runs/{runId}.
RunData ==
    [completed_steps |-> IF srv.run = "done" THEN 1 ELSE 0]

\* The handler is at position pc.
RunAt(pc) ==
    /\ page = "run"
    /\ runp.pc = pc

\* loadRun: GET /cheat-codes/runs/{runId} on mount.
LoadRun ==
    /\ page = "run"
    /\ runp.loading
    /\ \/ runp' = [runp EXCEPT !.run = <<RunData>>, !.loading = FALSE]
       \/ \E err \in Failures :
             runp' = [runp EXCEPT !.error = ErrorOf(err), !.loading = FALSE]
    /\ UNCHANGED <<page, srv, catalog, onb, home, hist, rankVars, acctVars>>

\* Complete step 1: completeStep1 starts.
CompleteStep1Press ==
    /\ RunAt("idle")
    /\ ~runp.loading
    /\ runp.run # <<>>
    /\ runp.run[1].completed_steps = 0
    /\ ~runp.firstWin
    /\ ~runp.completing
    /\ runp' = [runp EXCEPT !.error = NoError, !.completing = TRUE, !.pc = "complete"]
    /\ UNCHANGED <<page, srv, catalog, onb, home, hist, rankVars, acctVars>>

\* Mutation of CompleteStepFailed: the handler goes on to the advance.
CompleteStepFailed_GoesOn(err) ==
    [runp EXCEPT !.pc = "advance"]

\* completeStep1: POST .../steps/complete threw err; the catch and finally.
CompleteStepFailed(err) ==
    [runp EXCEPT !.error = ErrorOf(err), !.completing = FALSE, !.pc = "idle"]

\* completeStep1: POST /cheat-codes/runs/{runId}/steps/complete.
CompleteStepPost ==
    /\ RunAt("complete")
    /\ \/ /\ srv' = [srv EXCEPT !.run = "done"]
          /\ runp' = [runp EXCEPT !.pc = "advance"]
       \/ \E err \in Failures :
             /\ runp' = CompleteStepFailed(err)
             /\ UNCHANGED srv
    /\ UNCHANGED <<page, catalog, onb, home, hist, rankVars, acctVars>>

\* completeStep1: POST /onboarding/advance?step=first_win, whose failure is
\* swallowed, then setFirstWin(true).
CompleteStepAdvance ==
    /\ RunAt("advance")
    /\ \/ /\ AdvanceAccepted("first_win")
          /\ srv' = [srv EXCEPT !.step = NextStep("first_win")]
          /\ hist' = LogAdvance("first_win", TRUE, Null)
       \/ \E err \in AdvanceErrors("first_win") :
             /\ hist' = Swallow(LogAdvance("first_win", FALSE, err), err)
             /\ UNCHANGED srv
    /\ runp' = [runp EXCEPT !.firstWin = TRUE, !.pc = "reload"]
    /\ UNCHANGED <<page, catalog, onb, home, rankVars, acctVars>>

\* completeStep1: the reload of the run, and the finally.
CompleteStepReload ==
    /\ RunAt("reload")
    /\ \/ runp' = [runp EXCEPT !.run = <<RunData>>, !.completing = FALSE, !.pc = "idle"]
       \/ \E err \in Failures :
             runp' = [runp EXCEPT !.error = ErrorOf(err), !.completing = FALSE,
                                  !.pc = "idle"]
    /\ UNCHANGED <<page, srv, catalog, onb, home, hist, rankVars, acctVars>>

\* ------------------------------------------------------------------------
\* The application
\* ------------------------------------------------------------------------

Init ==
    /\ InitRankIdle
    /\ InitApp
    /\ InitLoggedIn

Next ==
    \/ GotoOnboarding
    \/ GotoHome
    \/ GotoRun
    \/ OnbMount
    \/ \E box \in {"consentData", "consentTerms", "consentAi"} : ToggleConsent(box)
    \/ SubmitConsentPress
    \/ SubmitConsentGrant
    \/ SubmitConsentAdvance
    \/ FillAccountForm
    \/ SubmitAccountPress
    \/ SubmitAccountCreate
    \/ SubmitAccountAdvance
    \/ AddSamplePress
    \/ GetFirstAccountId
    \/ PostTransaction
    \/ SubmitTransactionsPress
    \/ DetectRecurring
    \/ ComputeForecast
    \/ SubmitGoalsPress
    \/ PostGoal
    \/ SubmitGoalsAdvance
    \/ FetchTop3
    \/ SubmitTop3Advance
    \/ StartRunPress
    \/ PostRun
    \/ HomeRedirect
    \/ HomeCheck
    \/ HomeLoadForecast
    \/ HomeLoadRecs
    \/ LoadRun
    \/ CompleteStep1Press
    \/ CompleteStepPost
    \/ CompleteStepAdvance
    \/ CompleteStepReload

Spec == Init /\ [][Next]_vars

\* ------------------------------------------------------------------------
\* The Goals step, with its constraint list
\* ------------------------------------------------------------------------

\* A user who granted the required consents and linked an account reloads
\* /onboarding with the backend at its goals step.
InitGoals ==
    /\ InitRankIdle
    /\ InitLoggedIn
    /\ page = "onboarding"
    /\ \E u \in Urgencies :
          srv = [SrvFresh EXCEPT !.step = "goals",
                                 !.consents = {"data_access", "terms_of_service"},
                                 !.account = TRUE, !.forecast = <<u>>]
    /\ catalog \in Catalogs
    /\ onb = OnbFresh
    /\ home = HomeFresh
    /\ runp = RunFresh
    /\ hist = [HistFresh EXCEPT !.advSent = {"consent", "account_link"},
                                !.advOk = {"consent", "account_link"},
                                !.subGrants = {"data_access", "terms_of_service"}]

NextGoals ==
    \/ GotoOnboarding
    \/ OnbMount
    \/ \E label \in Labels \cup {""} : SetConstraintLabel(label)
    \/ AddConstraintPress
    \/ AddConstraintReturn
    \/ SubmitGoalsPress
    \/ PostGoal
    \/ SubmitGoalsAdvance
    \/ FetchTop3
    \/ SubmitTop3Advance

SpecGoals == InitGoals /\ [][NextGoals]_vars

\* ------------------------------------------------------------------------
\* Backend: users, sessions, audit trail, export and delete
\* ------------------------------------------------------------------------

\* Mutation of UsersOfToken: a token is accepted once issued, whatever
\* became of its user.
UsersOfToken_NeverRevoked(tok) ==
    {u \in DOMAIN users : tok \in users[u].tokens}

\* The users a session token authenticates: active, and the token not revoked.
UsersOfToken(tok) ==
    {u \in DOMAIN users : users[u].active /\ tok \in users[u].live}

\* The X-Session-Token of a request is accepted.
ValidSession(tok) ==
    UsersOfToken(tok) # {}

\* The user a valid token authenticates.
UserOf(tok) ==
    CHOOSE u \in UsersOfToken(tok) : TRUE

\* Every token issued so far.
Issued ==
    UNION {users[u].tokens : u \in DOMAIN users}

\* POST /auth/register answers 409 for this e-mail.
EmailTaken(email) ==
    \E u \in DOMAIN users : users[u].email = email

\* The users POST /auth/login authenticates with these credentials.
Authenticates(email, password) ==
    {u \in DOMAIN users : /\ users[u].active
                          /\ users[u].email = email
                          /\ users[u].password = password}

\* The audit trail with one more event about user u.
LogAudit(trail, u, action) ==
    Append(trail, [user |-> u, action |-> action, pii |-> users[u].email])

\* Mutation of ScrubAudit: the events of user u are removed from the trail.
ScrubAudit_Drops(trail, u) ==
    SelectSeq(trail, LAMBDA e : e.user # u)

\* The audit trail with the personal data of user u's events scrubbed.
ScrubAudit(trail, u) ==
    [i \in DOMAIN trail |->
        IF trail[i].user = u THEN [trail[i] EXCEPT !.pii = AnonEmail] ELSE trail[i]]

\* The record of a user after DELETE /user/delete: e-mail anonymized,
\* password cleared, consent records and vault storage deleted, sessions
\* revoked, user inactive.
PurgeUser(rec) ==
    [rec EXCEPT !.email = AnonEmail, !.password = Null, !.active = FALSE,
                !.consents = {}, !.vault = 0, !.live = {}]

\* DELETE /user/delete for user u: purge, scrub the trail, log the deletion.
DeleteUser(u) ==
    /\ users' = [users EXCEPT ![u] = PurgeUser(@)]
    /\ audit' = Append(ScrubAudit(audit, u),
                       [user |-> u, action |-> "user.delete", pii |-> AnonEmail])

\* A client holding the token tok grants a consent.
ApiGrantConsent(tok) ==
    /\ ValidSession(tok)
    /\ Len(audit) < MaxAudit
    /\ "data_access" \notin users[UserOf(tok)].consents
    /\ users' = [users EXCEPT ![UserOf(tok)].consents = @ \cup {"data_access"}]
    /\ audit' = LogAudit(audit, UserOf(tok), "consent.grant")
    /\ UNCHANGED <<ls, cookie, reg, sett, rq, appVars, rankVars>>

\* A client holding the token tok stores a document in the vault.
ApiVaultPut(tok) ==
    /\ ValidSession(tok)
    /\ Len(audit) < MaxAudit
    /\ users[UserOf(tok)].vault = 0
    /\ users' = [users EXCEPT ![UserOf(tok)].vault = 1]
    /\ audit' = LogAudit(audit, UserOf(tok), "vault.put")
    /\ UNCHANGED <<ls, cookie, reg, sett, rq, appVars, rankVars>>

\* ------------------------------------------------------------------------
\* Token store, middleware and routes
\* ------------------------------------------------------------------------

\* hasToken(): !!getToken()
HasToken ==
    ls # NoToken

\* The paths the browser is sent to.
Paths ==
    {<<>>, <<"home">>, <<"settings">>, <<"onboarding">>, <<"cheat", "run", "r1">>,
     <<"login">>, <<"register">>}

\* config.matcher of the middleware.
Matcher ==
    {<<"home">>, <<"settings">>, <<"onboarding">>, <<"cheat", ":path*">>}

\* A path matches a pattern: segment by segment, :path* matching any rest.
MatchesPattern(path, pat) ==
    IF pat[Len(pat)] = ":path*"
    THEN /\ Len(path) >= Len(pat) - 1
         /\ SubSeq(path, 1, Len(pat) - 1) = SubSeq(pat, 1, Len(pat) - 1)
    ELSE path = pat

\* The middleware runs for the path.
Matched(path) ==
    \E pat \in Matcher : MatchesPattern(path, pat)

\* Mutation of Middleware: /settings is let through without a cookie.
Middleware_SettingsOpen(path, ck) ==
    IF Matched(path) /\ path # <<"settings">> /\ ck = NoToken THEN <<"login">> ELSE path

\* middleware(request): the path the request ends on, given its
\* session_token cookie.
Middleware(path, ck) ==
    IF Matched(path) /\ ck = NoToken THEN <<"login">> ELSE path

\* The page component a path renders.
PageOf(path) ==
    CASE path = <<>> -> "root"
      [] path = <<"home">> -> "home"
      [] path = <<"settings">> -> "settings"
      [] path = <<"onboarding">> -> "onboarding"
      [] path = <<"login">> -> "login"
      [] path = <<"register">> -> "register"
      [] OTHER -> "run"

\* The pages whose mount effect leaves for /login when hasToken() is false.
ClientGuarded ==
    {"home", "settings", "onboarding", "run"}

\* The page left on screen by page p's mount effect.
Settle(p) ==
    IF p \in ClientGuarded /\ ~HasToken THEN "login" ELSE p

\* The page a request for the path ends on: the middleware, then the mount
\* effect of the page (RootPage goes on to /home or /login).
Route(path) ==
    LET p == PageOf(Middleware(path, cookie))
    IN IF p = "root"
       THEN IF HasToken THEN Settle(PageOf(Middleware(<<"home">>, cookie)))
                        ELSE "login"
       ELSE Settle(p)

\* The browser is sent to the path (page.goto, a link, the address bar).
Visit(path) ==
    /\ Show(Route(path))
    /\ reg' = RegFresh
    /\ sett' = SettFresh
    /\ hist' = [hist EXCEPT !.visited = path, !.nav = ~@,
                             !.served = PageOf(Middleware(path, cookie))]
    /\ UNCHANGED <<ls, cookie, users, audit, rq, srv, catalog, rankVars>>

\* ------------------------------------------------------------------------
\* RegisterPage
\* ------------------------------------------------------------------------

\* handleSubmit's catch and finally.
RegThrow(err) ==
    [reg EXCEPT !.error = ErrorOf(err), !.loading = FALSE, !.pc = "idle"]

\* The form is submitted: handleSubmit starts.
RegisterPress ==
    /\ page = "register"
    /\ ~reg.loading
    /\ reg' = [reg EXCEPT !.error = NoError, !.loading = TRUE, !.pc = "register"]
    /\ UNCHANGED <<ls, cookie, sett, users, audit, rq, appVars, rankVars>>

\* handleSubmit: POST /auth/register.
RegisterPost ==
    /\ page = "register"
    /\ reg.pc = "register"
    /\ \E email \in Emails :
          \/ /\ ~EmailTaken(email)
             /\ Len(users) < MaxUsers
             /\ users' = Append(users, NewUser(email))
             /\ reg' = [reg EXCEPT !.pc = "login"]
          \/ \E err \in Failures \cup (IF EmailTaken(email) THEN {HttpError(409)} ELSE {}) :
                /\ reg' = RegThrow(err)
                /\ UNCHANGED users
    /\ UNCHANGED <<ls, cookie, sett, audit, rq, appVars, rankVars>>

\* Mutation of RegisterLoginFailed: the page goes on to /onboarding.
RegisterLoginFailed_Navigates(err) ==
    /\ Show("onboarding")
    /\ reg' = RegFresh
    /\ UNCHANGED <<ls, cookie, users>>

\* handleSubmit: POST /auth/login threw err.
RegisterLoginFailed(err) ==
    /\ reg' = RegThrow(err)
    /\ UNCHANGED <<ls, cookie, users, page, onb, home, runp>>

\* handleSubmit: POST /auth/login, setToken(data.token) and
\* router.push("/onboarding").
RegisterLogin ==
    /\ page = "register"
    /\ reg.pc = "login"
    /\ \E email \in Emails :
          \/ /\ Cardinality(Issued) < MaxTokens
             /\ \E u \in Authenticates(email, Password) :
                   LET tok == Cardinality(Issued) + 1
                   IN /\ users' = [users EXCEPT ![u].tokens = @ \cup {tok},
                                                ![u].live = @ \cup {tok}]
                      /\ ls' = tok
                      /\ cookie' = tok
             /\ Show("onboarding")
             /\ reg' = RegFresh
          \/ \E err \in Failures : RegisterLoginFailed(err)
    /\ UNCHANGED <<sett, audit, rq, srv, catalog, hist, rankVars>>

\* ------------------------------------------------------------------------
\* SettingsPage
\* ------------------------------------------------------------------------

\* The errors a request carrying the stored token can throw.
SessionErrors ==
    Failures \cup (IF ValidSession(ls) THEN {} ELSE {HttpError(401)})

\* Export data: handleExport starts.
ExportPress ==
    /\ page = "settings"
    /\ ~sett.exporting
    /\ sett.exports < MaxExports
    /\ sett' = [sett EXCEPT !.error = NoError, !.exporting = TRUE]
    /\ UNCHANGED <<ls, cookie, reg, users, audit, rq, appVars, rankVars>>

\* Mutation of ExportFailed: the exporting flag is left set.
ExportFailed_StaysBusy(err) ==
    [sett EXCEPT !.error = ErrorOf(err)]

\* handleExport: GET /user/export threw err; the catch and finally.
ExportFailed(err) ==
    [sett EXCEPT !.error = ErrorOf(err), !.exporting = FALSE]

\* handleExport: GET /user/export, setExportUrl(url), and the finally.
ExportGet ==
    /\ page = "settings"
    /\ sett.exporting
    /\ \/ /\ ValidSession(ls)
          /\ Len(audit) < MaxAudit
          /\ audit' = LogAudit(audit, UserOf(ls), "user.export")
          /\ sett' = [sett EXCEPT !.exports = @ + 1, !.exporting = FALSE]
       \/ \E err \in SessionErrors :
             /\ sett' = ExportFailed(err)
             /\ UNCHANGED audit
    /\ UNCHANGED <<ls, cookie, reg, users, rq, appVars, rankVars>>

\* Delete account, or Cancel: setConfirmDelete.
ToggleConfirmDelete ==
    /\ page = "settings"
    /\ sett' = [sett EXCEPT !.confirmDelete = ~@]
    /\ UNCHANGED <<ls, cookie, reg, users, audit, rq, appVars, rankVars>>

\* Mutation of DeletePress: handleDelete starts from the first button.
DeletePress_Unconfirmed ==
    /\ page = "settings"
    /\ ~sett.deleting
    /\ sett' = [sett EXCEPT !.error = NoError, !.deleting = TRUE]
    /\ UNCHANGED <<ls, cookie, reg, users, audit, rq, appVars, rankVars>>

\* Confirm delete: handleDelete starts.
DeletePress ==
    /\ page = "settings"
    /\ sett.confirmDelete
    /\ ~sett.deleting
    /\ sett' = [sett EXCEPT !.error = NoError, !.deleting = TRUE]
    /\ UNCHANGED <<ls, cookie, reg, users, audit, rq, appVars, rankVars>>

\* Mutation of ClearToken: the cookie is left in place.
ClearToken_KeepsCookie ==
    /\ ls' = NoToken
    /\ cookie' = cookie

\* clearToken(): the token leaves localStorage and the cookie expires.
ClearToken ==
    /\ ls' = NoToken
    /\ cookie' = NoToken

\* handleDelete: DELETE /user/delete, clearToken() and router.push("/login");
\* or the catch and finally.
DeleteRequest ==
    /\ page = "settings"
    /\ sett.deleting
    /\ \/ /\ ValidSession(ls)
          /\ Len(audit) < MaxAudit
          /\ DeleteUser(UserOf(ls))
          /\ ClearToken
          /\ Show("login")
          /\ sett' = SettFresh
       \/ \E err \in SessionErrors :
             /\ sett' = [sett EXCEPT !.error = ErrorOf(err), !.deleting = FALSE]
             /\ UNCHANGED <<ls, cookie, users, audit, page, onb, home, runp>>
    /\ UNCHANGED <<reg, rq, srv, catalog, hist, rankVars>>

\* ------------------------------------------------------------------------
\* The account's life: register, use, export, delete
\* ------------------------------------------------------------------------

\* Nobody is registered; the browser is on /register.
InitAccount ==
    /\ InitRankIdle
    /\ InitAcctIdle
    /\ page = "register"
    /\ srv = SrvFresh
    /\ catalog = {}
    /\ onb = OnbFresh
    /\ home = HomeFresh
    /\ runp = RunFresh
    /\ hist = HistFresh

NextAccount ==
    \/ \E path \in Paths : Visit(path)
    \/ RegisterPress
    \/ RegisterPost
    \/ RegisterLogin
    \/ \E tok \in Issued : ApiGrantConsent(tok)
    \/ \E tok \in Issued : ApiVaultPut(tok)
    \/ ExportPress
    \/ ExportGet
    \/ ToggleConfirmDelete
    \/ DeletePress
    \/ DeleteRequest

SpecAccount == InitAccount /\ [][NextAccount]_vars

\* ------------------------------------------------------------------------
\* The API client: request, api.raw, isApiError
\* ------------------------------------------------------------------------

\* A property a JSON body does not have.
Undefined == "undefined"

\* The statuses of the responses handed to the client.
Statuses == {200, 204, 400, 401, 500}

\* The values of a body's detail and of its message.
Details == {Undefined, "", "Invalid credentials"}

Messages == {Undefined, "", "Something failed"}

\* A response body: JSON with the two properties, or not readable as JSON.
Bodies ==
    [json : {TRUE}, detail : Details, message : Messages]
      \cup {[json |-> FALSE, detail |-> Undefined, message |-> Undefined]}

\* What fetch produces: a rejection (no response), or a response with its
\* status, its X-Request-ID header (null: none) and its body.
FetchResults ==
    {[kind |-> "failure", status |-> 0, rid |-> Null,
      body |-> [json |-> FALSE, detail |-> Undefined, message |-> Undefined]]}
      \cup [kind : {"response"}, status : Statuses, rid : {Null, "req-1"}, body : Bodies]

\* The methods of the client.
Methods == {"get", "post", "put", "patch", "delete", "raw"}

\* A JavaScript value is truthy (of undefined, the empty and other strings).
Truthy(v) ==
    v # Undefined /\ v # ""

\* res.ok
Ok(status) ==
    status >= 200 /\ status <= 299

\* `Request failed (${res.status})`
DefaultMessage(status) ==
    CASE status = 400 -> "Request failed (400)"
      [] status = 401 -> "Request failed (401)"
      [] status = 500 -> "Request failed (500)"
      [] OTHER -> "Request failed"

\* Mutation of ErrorMessage: the body's message is preferred to its detail.
ErrorMessage_MessageFirst(res) ==
    IF ~res.body.json THEN DefaultMessage(res.status)
    ELSE IF Truthy(res.body.message) THEN res.body.message
    ELSE IF Truthy(res.body.detail) THEN res.body.detail
    ELSE DefaultMessage(res.status)

\* The message of the ApiError for a non-2xx response:
\* body.detail || body.message || message, the default when res.json() throws.
ErrorMessage(res) ==
    IF ~res.body.json THEN DefaultMessage(res.status)
    ELSE IF Truthy(res.body.detail) THEN res.body.detail
    ELSE IF Truthy(res.body.message) THEN res.body.message
    ELSE DefaultMessage(res.status)

\* The SyntaxError res.json() throws on a body that is not JSON.
SyntaxError ==
    [name |-> "SyntaxError", message |-> "Unexpected token"]

\* The TypeError fetch rejects with.
FetchTypeError ==
    [name |-> "TypeError", message |-> "Failed to fetch"]

\* request(): what it throws or returns for the result of its fetch.
Request(res) ==
    IF res.kind = "failure"
    THEN [threw |-> TRUE, value |-> NetworkError]
    ELSE IF ~Ok(res.status)
    THEN [threw |-> TRUE,
          value |-> [message |-> ErrorMessage(res), requestId |-> res.rid,
                     status |-> res.status]]
    ELSE IF res.status = 204
    THEN [threw |-> FALSE, value |-> [data |-> Null, requestId |-> res.rid]]
    ELSE IF res.body.json
    THEN [threw |-> FALSE, value |-> [data |-> res.body, requestId |-> res.rid]]
    ELSE [threw |-> TRUE, value |-> SyntaxError]

\* api.raw(): the promise of fetch, as it is.
Raw(res) ==
    IF res.kind = "failure"
    THEN [threw |-> TRUE, value |-> FetchTypeError]
    ELSE [threw |-> FALSE, value |-> res]

\* isApiError(e), for the objects the client throws.
IsApiError(e) ==
    "message" \in DOMAIN e /\ "status" \in DOMAIN e

\* Mutation of Headers: the token header is sent whatever getToken() returns.
Headers_AlwaysToken(method, tok) ==
    [h \in (IF method = "raw" THEN {} ELSE {"Content-Type"}) \cup {"X-Session-Token"} |->
        IF h = "Content-Type" THEN "application/json" ELSE tok]

\* The headers of the fetch of request() and of api.raw(), tok being what
\* getToken() returned.
Headers(method, tok) ==
    [h \in (IF method = "raw" THEN {} ELSE {"Content-Type"})
             \cup (IF tok # NoToken THEN {"X-Session-Token"} ELSE {}) |->
        IF h = "Content-Type" THEN "application/json" ELSE tok]

\* Mutation of SetToken: a cookie already present is left as it is.
SetToken_KeepsOldCookie(tok) ==
    /\ ls # tok
    /\ ls' = tok
    /\ cookie' = IF cookie = NoToken THEN tok ELSE cookie
    /\ UNCHANGED <<reg, sett, users, audit, rq, appVars, rankVars>>

\* setToken(tok)
SetToken(tok) ==
    /\ ls # tok
    /\ ls' = tok
    /\ cookie' = tok
    /\ UNCHANGED <<reg, sett, users, audit, rq, appVars, rankVars>>

\* clearToken()
ClearTokenCall ==
    /\ ls # NoToken
    /\ ClearToken
    /\ UNCHANGED <<reg, sett, users, audit, rq, appVars, rankVars>>

\* api.get/post/put/patch/delete/raw is called: the fetch is sent.
Call(method) ==
    /\ rq.pc = "idle"
    /\ rq' = [pc |-> "sent", method |-> method, headers |-> Headers(method, ls)]
    /\ UNCHANGED <<ls, cookie, reg, sett, users, audit, appVars, rankVars>>

\* The fetch settles with res and the call throws or returns.
Respond(res) ==
    /\ rq.pc = "sent"
    /\ rq' = [pc |-> "done", method |-> rq.method, headers |-> rq.headers, res |-> res,
              out |-> IF rq.method = "raw" THEN Raw(res) ELSE Request(res)]
    /\ UNCHANGED <<ls, cookie, reg, sett, users, audit, appVars, rankVars>>

\* The caller has handled the outcome.
Finish ==
    /\ rq.pc = "done"
    /\ rq' = RqIdle
    /\ UNCHANGED <<ls, cookie, reg, sett, users, audit, appVars, rankVars>>

InitRequest ==
    /\ InitRankIdle
    /\ InitAppIdle
    /\ InitAcctIdle

NextRequest ==
    \/ \E tok \in 1..MaxTokens : SetToken(tok)
    \/ ClearTokenCall
    \/ \E method \in Methods : Call(method)
    \/ \E res \in FetchResults : Respond(res)
    \/ Finish

SpecRequest == InitRequest /\ [][NextRequest]_vars

\* ------------------------------------------------------------------------
\* Claims
\* ------------------------------------------------------------------------

\* C1: whatever the candidates and the urgency score, the Top 3 produced by
\* the ranking holds no recommendation of low confidence.
C1_NoLowInTop3 ==
    rankDone => \A i \in DOMAIN ranked : ranked[i].confidence # "low"

\* C1 witness: under maximum urgency, an urgent low-confidence quick win of
\* large impact was a candidate and the ranking produced a full Top 3.
C1_Witness ==
    /\ rankDone
    /\ rankUrgency = MaxUrgency
    /\ Len(ranked) = 3
    /\ \E c \in rankCands :
          c.confidence = "low" /\ c.urgent /\ c.is_quick_win /\ c.large

\* The cards the onboarding page renders on its Top 3 step.
OnbCards ==
    onb.recs

\* The Top 3 step of the wizard is on screen.
Top3Shown ==
    OnStep(4)

\* The home dashboard (nav-home) is on screen.
DashboardShown ==
    page = "home" /\ ~home.loading

\* The backend has recorded the first win.
FirstWinRecorded ==
    \/ OnboardingState.first_win_completed_at # Null
    \/ OnboardingState.current_step = "completed"

\* C2: every Top 3 list shown at the end of onboarding holds at least one
\* recommendation flagged is_quick_win.
C2_Top3HasQuickWin ==
    Top3Shown => \E i \in DOMAIN OnbCards : OnbCards[i].is_quick_win

\* C3: the Top 3 list rendered by the onboarding page and by the home page
\* never has more than three cards, whatever the backend returned.
C3_AtMostThreeCards ==
    /\ Top3Shown => Len(onb.recs) <= 3
    /\ DashboardShown => Len(home.recs) <= 3

\* C4: a user whose first win is not recorded is never shown the home
\* dashboard, also when GET /onboarding/state fails.
C4_NoDashboardBeforeFirstWin ==
    DashboardShown => FirstWinRecorded

\* C5: whenever the run page shows the First Win banner the backend has
\* recorded the first win, so that /home does not redirect to /onboarding.
C5_BannerImpliesRecorded ==
    (page = "run" /\ runp.firstWin) => FirstWinRecorded

\* The positions of the wizard's handlers at their last request.
ContinueLastPcs ==
    {"advance_consent", "advance_account", "forecast", "advance_top3"}

\* C6: once the initial check is over the wizard's step never decreases and
\* never skips a step, and a Continue that succeeds moves it forward by one.
C6_StepForwardByOne ==
    [][(page = "onboarding" /\ ~onb.checking /\ page' = "onboarding" /\ ~onb'.checking)
         => /\ onb'.step \in {onb.step, onb.step + 1}
            /\ (onb.pc \in ContinueLastPcs /\ onb'.pc = "idle" /\ onb'.error = NoError)
                 => onb'.step = onb.step + 1]_vars

\* C6 witness: the wizard was walked from Consent to Top 3 in one page visit.
C6_Witness ==
    /\ OnStep(4)
    /\ onb.consentData
    /\ onb.acctForm
    /\ onb.txnCount = NumSamples
    /\ onb.recs # <<>>
    /\ hist.advOk = {"consent", "account_link", "goals", "top_3"}

\* C7: every advance request is sent after the advance of the preceding
\* step has succeeded, and the backend's order gate never rejects one.
C7_AdvanceInOrder ==
    ~hist.advEarly /\ ~hist.gateHit

\* C8: the advance of first_win is sent, and the First Win banner shown,
\* only after the run's step has been completed on the backend.
C8_FirstWinNeedsCompletedStep ==
    ("first_win" \in hist.advSent \/ runp.firstWin \/ RunAt("advance"))
        => srv.run = "done"

\* C8 witness: the banner is shown after the advance of first_win was sent.
C8_Witness ==
    /\ page = "run"
    /\ runp.firstWin
    /\ "first_win" \in hist.advSent

\* C9: the ai_memory box starts unticked, and the ai_memory grant is sent
\* only by a submission whose Continue was pressed with the box ticked.
C9_AiMemoryOffUnlessTicked ==
    /\ onb.checking => ~onb.consentAi
    /\ (At("grant") /\ ConsentOrder[onb.grant] = "ai_memory") => hist.aiPressed
    /\ ~hist.aiEver => "ai_memory" \notin srv.consents

\* C9 witness: Continue was pressed with the box unticked, the box was
\* ticked while the submission ran, and the wizard left Consent with no
\* ai_memory consent granted.
C9_Witness ==
    /\ OnStep(1)
    /\ onb.consentAi
    /\ ~hist.aiEver
    /\ "consent" \in hist.advOk
    /\ "ai_memory" \notin srv.consents

RequiredConsents == {"data_access", "terms_of_service"}

\* C10: the advance of consent is sent, and the wizard leaves the Consent
\* step, only after the data_access and the terms_of_service grants have
\* both succeeded in that submission.
C10_RequiredConsentsGate ==
    /\ [](At("advance_consent") => RequiredConsents \subseteq hist.subGrants)
    /\ [](srv.step # "consent" => RequiredConsents \subseteq srv.consents)
    /\ [][(OnStep(0) /\ page' = "onboarding" /\ onb'.step # 0)
            => RequiredConsents \subseteq hist.subGrants]_vars

\* C10 witness: the wizard left Consent in this page visit, both grants of
\* the submission having succeeded.
C10_Witness ==
    /\ OnStep(1)
    /\ onb.consentData
    /\ onb.consentTerms
    /\ RequiredConsents \subseteq hist.subGrants
    /\ "consent" \in hist.advOk

\* C13: every request that fails with an HTTP error response carrying an
\* X-Request-ID is shown to the user in the page's error box, with its
\* message and that request id.
C13_HttpErrorsSurfaced ==
    ~hist.hidden

\* The step is a request of the browser for the path.
IsVisit(path) ==
    /\ hist'.nav # hist.nav
    /\ hist'.visited = path

\* The step is a DELETE /user/delete that succeeds.
DeleteSucceeds ==
    /\ page = "settings"
    /\ sett.deleting
    /\ \E u \in DOMAIN users : users[u].active /\ ~users'[u].active

\* The step is a POST /auth/login of RegisterPage that succeeds.
LoginSucceeds ==
    /\ page = "register"
    /\ reg.pc = "login"
    /\ Issued' # Issued

\* C11: a successful deletion removes the token from localStorage and the
\* cookie and sends the browser to /login; while no token is stored every
\* visit to /home ends on /login; a token is stored again only by a login.
C11_DeleteLocksOut ==
    /\ [][DeleteSucceeds => (ls' = NoToken /\ cookie' = NoToken /\ page' = "login")]_vars
    /\ [][(IsVisit(<<"home">>) /\ (ls = NoToken \/ cookie = NoToken))
            => page' = "login"]_vars
    /\ []((ls = NoToken \/ cookie = NoToken) => page # "home")
    /\ [][(ls = NoToken /\ ls' # NoToken) => LoginSucceeds]_vars

\* C11 witness: the account was deleted, and the visit to /home that
\* followed ended on /login with no token stored.
C11_Witness ==
    /\ \E u \in DOMAIN users : ~users[u].active
    /\ hist.visited = <<"home">>
    /\ page = "login"
    /\ ls = NoToken
    /\ cookie = NoToken

\* C12: a request for /home, /settings, /onboarding or a path under /cheat/
\* with no session_token cookie is answered with /login and never reaches
\* the page; with the cookie it is passed through to the page.
C12_MiddlewareGuards ==
    [][\A path \in Paths :
          (IsVisit(path) /\ Matched(path)) =>
             /\ cookie = NoToken => (hist'.served = "login" /\ page' = "login")
             /\ cookie # NoToken => (hist'.served = PageOf(path) /\ page' = PageOf(path))]_vars

\* C12 witness: a request for the run page under /cheat/ carried the cookie
\* and was passed through.
C12_Witness ==
    /\ hist.visited = <<"cheat", "run", "r1">>
    /\ cookie # NoToken
    /\ hist.served = "run"
    /\ page = "run"

\* A call of request() is over.
RequestDone ==
    rq.pc = "done" /\ rq.method # "raw"

\* C14: whatever makes request() fail, the value it throws has the ApiError
\* shape: isApiError holds of it.
C14_ThrowsOnlyApiError ==
    (RequestDone /\ rq.out.threw) => IsApiError(rq.out.value)

\* The message C15 states for a non-2xx response: the detail if present,
\* else the message if present, else the default.
ClaimedMessage(res) ==
    IF res.body.json /\ res.body.detail # Undefined THEN res.body.detail
    ELSE IF res.body.json /\ res.body.message # Undefined THEN res.body.message
    ELSE DefaultMessage(res.status)

\* The message of the amended C15: as ClaimedMessage, an empty string
\* counting as not present.
AmendedMessage(res) ==
    IF res.body.json /\ res.body.detail \notin {Undefined, ""} THEN res.body.detail
    ELSE IF res.body.json /\ res.body.message \notin {Undefined, ""} THEN res.body.message
    ELSE DefaultMessage(res.status)

\* What C15 states of a finished call, for the given message rule.
RequestContract(msg) ==
    RequestDone =>
       /\ (rq.res.kind = "response" /\ ~Ok(rq.res.status)) =>
             /\ rq.out.threw
             /\ rq.out.value.status = rq.res.status
             /\ rq.out.value.requestId = rq.res.rid
             /\ rq.out.value.message = msg
       /\ rq.res.kind = "failure" =>
             /\ rq.out.threw
             /\ rq.out.value.status = 0
             /\ rq.out.value.requestId = Null
       /\ (rq.res.kind = "response" /\ rq.res.status = 204) =>
             /\ ~rq.out.threw
             /\ rq.out.value.data = Null

\* C15 as stated: for a non-2xx response the ApiError has the response's
\* status and request id, and as message the body's detail if present, else
\* its message, else 'Request failed (<status>)'; a fetch that fails gives
\* status 0 and requestId null; a 204 response returns data null.
C15_ErrorFieldsAsStated ==
    RequestContract(IF RequestDone THEN ClaimedMessage(rq.res) ELSE "")

\* C15 amended: the same, the detail and the message being used only when
\* they are not empty.
C15_ErrorFields ==
    RequestContract(IF RequestDone THEN AmendedMessage(rq.res) ELSE "")

\* C15 witness: a 401 whose detail is empty and whose message is not was
\* thrown with the body's message and the response's request id.
C15_Witness ==
    /\ RequestDone
    /\ rq.res.status = 401
    /\ rq.res.body.json
    /\ rq.res.body.detail = ""
    /\ rq.out.threw
    /\ rq.out.value.message = "Something failed"
    /\ rq.out.value.requestId = "req-1"

\* C16: every call of the client sends X-Session-Token equal to the token
\* stored in localStorage at the call, and no such header when none is stored.
C16_TokenHeader ==
    [][(rq.pc = "idle" /\ rq'.pc = "sent") =>
          IF ls # NoToken
          THEN /\ "X-Session-Token" \in DOMAIN rq'.headers
               /\ rq'.headers["X-Session-Token"] = ls
          ELSE "X-Session-Token" \notin DOMAIN rq'.headers]_vars

\* C16 witness: api.raw was called after the stored token had been replaced,
\* and carried the new token.
C16_Witness ==
    /\ rq.pc = "sent"
    /\ rq.method = "raw"
    /\ ls = 2
    /\ DOMAIN rq.headers = {"X-Session-Token"}
    /\ rq.headers["X-Session-Token"] = 2

\* The Download link is on screen.
DownloadLinkShown ==
    page = "settings" /\ sett.exports > 0

\* The step is a GET /user/export that succeeds.
ExportSucceeds ==
    /\ page = "settings"
    /\ sett.exporting
    /\ Len(audit') = Len(audit) + 1
    /\ audit'[Len(audit')].action = "user.export"

\* The step is a GET /user/export that fails: handleExport is under way and
\* the page's state changes by no other handler, with nothing done on the
\* backend.
ExportFails ==
    /\ page = "settings"
    /\ sett.exporting
    /\ sett' # sett
    /\ sett'.deleting = sett.deleting
    /\ sett'.confirmDelete = sett.confirmDelete
    /\ hist'.nav = hist.nav
    /\ UNCHANGED <<users, audit>>

\* C17: when /user/export succeeds the Download link is shown, and it stays
\* while the settings page does; when it fails no new link is created, an
\* error is shown and the exporting flag is cleared.
C17_ExportLink ==
    /\ [][ExportSucceeds => (DownloadLinkShown' /\ sett'.exports = sett.exports + 1)]_vars
    /\ [][(DownloadLinkShown /\ page' = "settings" /\ hist'.nav = hist.nav)
            => DownloadLinkShown']_vars
    /\ [][ExportFails => /\ sett'.exports = sett.exports
                         /\ sett'.error[1] # ""
                         /\ ~sett'.exporting]_vars

\* C17 witness: an export succeeded and a later one failed; the link of the
\* first is still shown, with the error of the second.
C17_Witness ==
    /\ DownloadLinkShown
    /\ sett.exports = 1
    /\ ~sett.exporting
    /\ sett.error # NoError
    /\ Len(audit) = 1

\* C18 as stated: an audit event, once recorded, is never removed and never
\* changed by any operation.
C18_AuditNeverChanges ==
    [][\A i \in DOMAIN audit : i \in DOMAIN audit' /\ audit'[i] = audit[i]]_vars

\* C18 amended: an audit event is never removed, and its user and action
\* never change; its personal data changes only by being scrubbed when its
\* user's account is deleted.
C18_AuditAppendOnly ==
    [][\A i \in DOMAIN audit :
          /\ i \in DOMAIN audit'
          /\ audit'[i].user = audit[i].user
          /\ audit'[i].action = audit[i].action
          /\ audit'[i].pii # audit[i].pii =>
                /\ audit'[i].pii = AnonEmail
                /\ users[audit[i].user].active
                /\ ~users'[audit[i].user].active]_vars

\* C18 witness: after a deletion the trail still holds the consent event of
\* the deleted user, scrubbed, before the event of the deletion.
C18_Witness ==
    \E i, j \in DOMAIN audit :
       /\ i < j
       /\ audit[i].action = "consent.grant"
       /\ audit[i].pii = AnonEmail
       /\ audit[j].action = "user.delete"
       /\ audit[j].user = audit[i].user

\* C19: once a user is deleted, none of their personal data remains (e-mail
\* anonymized, password cleared, no consent record, empty vault, audit
\* events scrubbed), none of their sessions is valid, and no credentials
\* authenticate them.
C19_DeletePurges ==
    \A u \in DOMAIN users :
       ~users[u].active =>
          /\ users[u].email = AnonEmail
          /\ users[u].password = Null
          /\ users[u].consents = {}
          /\ users[u].vault = 0
          /\ \A i \in DOMAIN audit : audit[i].user = u => audit[i].pii = AnonEmail
          /\ users[u].live = {}
          /\ \A tok \in users[u].tokens : ~ValidSession(tok)
          /\ \A email \in Emails : u \notin Authenticates(email, Password)

\* C19 witness: a user who had granted a consent and stored a document was
\* deleted, and the same e-mail has registered again as another user.
C19_Witness ==
    \E u, v \in DOMAIN users :
       /\ ~users[u].active
       /\ users[v].active
       /\ users[v].email \in Emails
       /\ \E i \in DOMAIN audit : audit[i].user = u /\ audit[i].action = "vault.put"
       /\ \E i \in DOMAIN audit : audit[i].user = u /\ audit[i].action = "consent.grant"

\* The step is a request of RegisterPage.handleSubmit that fails.
RegisterFails ==
    /\ page = "register"
    /\ reg.pc \in {"register", "login"}
    /\ hist'.nav = hist.nav
    /\ UNCHANGED users
    /\ (reg' # reg \/ page' # page)

\* C20: a token is stored only by a successful /auth/login that followed a
\* successful /auth/register, and the page then goes to /onboarding; when
\* either request fails no token is stored, the page stays and shows the
\* error.
C20_RegisterStoresToken ==
    /\ [][(ls' # ls /\ ls' # NoToken) =>
             /\ LoginSucceeds
             /\ \E u \in DOMAIN users' : users'[u].active /\ ls' \in users'[u].live
             /\ cookie' = ls']_vars
    /\ [][LoginSucceeds => (page' = "onboarding" /\ ls' # NoToken)]_vars
    /\ [][RegisterFails => /\ UNCHANGED <<ls, cookie, page>>
                           /\ reg'.error[1] # ""
                           /\ ~reg'.loading]_vars

\* C20 witness: the first submission registered the user and its login
\* failed, the second was answered 409; no token is stored and the page
\* shows the error.
C20_Witness ==
    /\ page = "register"
    /\ Len(users) = 1
    /\ users[1].active
    /\ reg.error = ErrorOf(HttpError(409))
    /\ ls = NoToken
    /\ cookie = NoToken

\* C21: whenever the wizard is on its Top 3 step, the cards of the
\* recommendations are shown, each with its Start button, so that a run can
\* be started; also after a reload with the backend at top_3 or first_win.
C21_Top3CardsShown ==
    Top3Shown => Len(OnbCards) > 0

\* The positions a step handler at position pc can be at one step later: pc
\* while its request is pending, its next request, or idle when it returns or
\* throws.
HandlerCont(pc) ==
    {"idle", pc} \cup
    CASE pc = "grant" -> {"grant", "advance_consent"}
      [] pc = "create_account" -> {"advance_account"}
      [] pc = "get_account" -> {"post_txn"}
      [] pc = "detect" -> {"forecast"}
      [] pc = "post_goal" -> {"advance_goals"}
      [] pc = "advance_goals" -> {"top3"}
      [] pc = "top3" -> {"advance_top3"}
      [] OTHER -> {}

\* A step handler of the wizard is between its first request and its return.
InFlight ==
    /\ page = "onboarding"
    /\ onb.pc # "idle"

\* C22: no two step submissions of the wizard run at the same time: while
\* one of the handlers is in flight the loading flag is set, and until it
\* has finished the wizard only moves along that handler; a handler starts
\* only when none is in flight.
C22_OneSubmissionAtATime ==
    [][/\ InFlight => onb.loading
       /\ (InFlight /\ page' = "onboarding") => onb'.pc \in HandlerCont(onb.pc)
       /\ (page = "onboarding" /\ ~InFlight /\ InFlight') => ~onb.loading]_vars

\* submitGoals is in flight after its second request, Continue disabled.
C22_Witness ==
    /\ At("top3")
    /\ onb.loading
    /\ onb.step = 3

\* A request of a wizard step handler has failed in this step: the handler
\* is back at idle before its last request, or its last request left the
\* backend and the page without that request's effect.
OnbRequestFails ==
    /\ InFlight
    /\ page' = "onboarding"
    /\ ~onb'.checking
    /\ onb'.pc = "idle"
    /\ CASE onb.pc \in {"advance_consent", "advance_account", "advance_top3"} ->
              srv' = srv
         [] onb.pc = "post_txn" -> onb'.count # NumSamples
         [] onb.pc = "forecast" -> onb'.step = onb.step
         [] OTHER -> TRUE

\* A request of completeStep1 has failed in this step.
RunRequestFails ==
    /\ page = "run"
    /\ page' = "run"
    /\ runp.completing
    /\ ~runp'.loading
    /\ CASE runp.pc = "reload" -> runp'.run = runp.run
         [] OTHER -> srv' = srv

\* C23: when a request of a wizard step handler fails, the wizard stays on
\* its step, an error message is shown and loading is cleared; when a
\* request of completeStep1 fails, an error message is shown, completing is
\* cleared and the First Win banner is not shown.
C23_FailureStaysOnStep ==
    [][/\ OnbRequestFails =>
             /\ onb'.step = onb.step
             /\ onb'.error[1] # ""
             /\ ~onb'.loading
       /\ RunRequestFails =>
             /\ runp'.error[1] # ""
             /\ ~runp'.completing
             /\ ~runp'.firstWin]_vars

\* The bodies GET /onboarding/state can have: any step, with or without
\* the time of the first win.
OnboardingStates ==
    [current_step : {ServerSteps[i] : i \in DOMAIN ServerSteps},
     first_win_completed_at : {Null, "set"}]

\* C24: for every onboarding state the backend can return, exactly one of
\* /home and /onboarding redirects to the other, so that the page the user
\* is sent to does not send them back.
C24_ExactlyOneRedirects ==
    /\ OnboardingState \in OnboardingStates
    /\ \A state \in OnboardingStates :
          HomeRedirects(state) <=> ~OnbRedirects(state)

\* /home has read the state and stays, where /onboarding would redirect.
C24_Witness ==
    /\ HomeAt("forecast")
    /\ OnbRedirects(OnboardingState)
    /\ ~HomeRedirects(OnboardingState)

\* C25: the wizard never shows the Transactions step for a user who has no
\* account, so 'Add sample transactions' always finds an account: also when
\* the step was chosen by the mount effect from the backend's step.
C25_TransactionsNeedsAccount ==
    OnStep(2) => srv.account

\* addSampleTransactions returns or throws in this step, after the POSTs of
\* its loop that succeeded (onb'.count of them).
AddSampleEnds ==
    /\ At("post_txn")
    /\ page' = "onboarding"
    /\ ~onb'.checking
    /\ onb'.pc = "idle"

\* C26: the transaction count of the Transactions step is the number of
\* sample transactions the page has created on the backend: every press of
\* 'Add sample transactions' raises it by the number of POST /transactions
\* that succeeded in that press, also when the press fails part-way.
C26_CountIsCreated ==
    [][AddSampleEnds => onb'.txnCount = onb.txnCount + onb'.count]_vars

\* C27: the constraints list of the Goals step has one entry for every
\* POST /goals/constraints of the page that succeeded, also when 'Add
\* constraint' is pressed again before an earlier request has returned.
C27_OneEntryPerConstraint ==
    page = "onboarding" => Len(onb.constraints) = onb.posted

\* C28: after any sequence of setToken and clearToken calls the
\* session_token cookie is present exactly when localStorage holds a token
\* (hasToken()), and both hold the token of the last setToken.
C28_CookieFollowsStorage ==
    /\ cookie # NoToken <=> HasToken
    /\ cookie = ls

\* A second token has been stored, over the first or after a clearToken.
C28_Witness ==
    /\ HasToken
    /\ cookie = MaxTokens
    /\ rq.pc = "idle"

\* C29: a retry of Continue on the Goals step repeats no request that had
\* already succeeded: POST /goals succeeds at most once, and the advance of
\* goals and of top_3 is only sent while the backend is still at that step,
\* so that the retry can go on to the Top 3 step.
C29_RetryRepeatsNothing ==
    [][/\ (At("post_goal") /\ onb'.pc = "advance_goals") => ~hist.goalMade
       /\ At("advance_goals")' =>
             (srv'.step = "goals" /\ "goals" \notin hist'.advOk)
       /\ At("advance_top3")' =>
             (srv'.step = "top_3" /\ "top_3" \notin hist'.advOk)]_vars

\* The step is a DELETE /user/delete that fails: handleDelete is under way
\* and the page's state changes by no other handler, with nothing done on
\* the backend.
DeleteFails ==
    /\ page = "settings"
    /\ sett.deleting
    /\ sett' # sett
    /\ sett'.exporting = sett.exporting
    /\ sett'.exports = sett.exports
    /\ sett'.confirmDelete = sett.confirmDelete
    /\ hist'.nav = hist.nav
    /\ UNCHANGED <<users, audit>>

\* C30: DELETE /user/delete is only sent after 'Delete account' and then
\* 'Confirm delete' were pressed; when it fails the token stays in
\* localStorage and in the cookie, the browser stays on the settings page,
\* an error is shown and the deleting flag is cleared.
C30_DeleteConfirmedAndSafe ==
    [][/\ (~sett.deleting /\ sett'.deleting) =>
             (page = "settings" /\ sett.confirmDelete)
       /\ DeleteFails =>
             /\ ls' = ls
             /\ cookie' = cookie
             /\ page' = "settings"
             /\ sett'.error[1] # ""
             /\ ~sett'.deleting]_vars

\* The confirmed DELETE /user/delete is pending, the user still logged in.
C30_Witness ==
    /\ page = "settings"
    /\ sett.deleting
    /\ sett.confirmDelete
    /\ HasToken

====
